---- MODULE Spec2Model ----
(***************************************************************************)
(* Sandbox pool (app/services/sandbox_pool.py) and sandbox manager         *)
(* (app/services/sandbox_manager.py) of JoySafeter.                        *)
(*                                                                         *)
(* The pool is a Python dict, which iterates in insertion order: it is a   *)
(* sequence of entries here.  Every pool method runs its body under the    *)
(* pool's asyncio.Lock and awaits nothing that suspends inside it, so one  *)
(* pool method is one step.  A manager coroutine is a task whose pc is the *)
(* awaited call it will make next; one step makes that call and runs the   *)
(* synchronous code that follows it.                                       *)
(***************************************************************************)
EXTENDS Integers, Sequences, FiniteSets, TLC

\* ---- bounds ----
NumIds == 3
MaxHandles == 3
MaxTime == 1
MaxActive == 2
MaxCalls == 2
MaxPoolCalls == 5
MaxSeqCalls == 3
MaxLockCalls == 2

\* ---- pool construction parameters (SandboxPool.__init__), scaled down ----
MaxSizes == {1, 2}
IdleTimeout == 0

Ids == 1..NumIds
\* ids are uuid4 values: a caller can name an id only once it was issued.
\* The last id is never issued; it is the id of no record, ever.
NeverIssued == NumIds
Handles == 1..MaxHandles
Users == {"u1", "u2"}
\* two coroutines of the manager can be in flight at once
Tasks == {1, 2}
Statuses == {"pending", "creating", "running", "stopped", "failed", "terminating"}

VARIABLES pool, max_size, env, shutdown, now, adapters, records, nextId, tasks, calls, last

vars == <<pool, max_size, env, shutdown, now, adapters, records, nextId, tasks, calls, last>>

\* ---------------------------------------------------------------------
\* Values
\* ---------------------------------------------------------------------
\* env is fixed in a run.  serial: every call is awaited before the next
\* one is made.  write_raises: the _update_status writes inside the try
\* block of ensure_sandbox_running may raise.  clock: the records carry
\* last_active_at; without it the column is left out of the state.
\* close_raises: adapter.cleanup() may raise.
Concurrent == [serial |-> FALSE, write_raises |-> FALSE, clock |-> FALSE, close_raises |-> FALSE]

Serial == [serial |-> TRUE, write_raises |-> TRUE, clock |-> FALSE, close_raises |-> FALSE]

Clocked == [serial |-> FALSE, write_raises |-> FALSE, clock |-> TRUE, close_raises |-> FALSE]

SerialClocked == [serial |-> TRUE, write_raises |-> TRUE, clock |-> TRUE, close_raises |-> FALSE]

Raising == [serial |-> FALSE, write_raises |-> FALSE, clock |-> FALSE, close_raises |-> TRUE]

\* last_active_at: NULL
NoStamp == -1

\* error_message: NULL, or the text of an exception
None == "none"

\* str(e) of the exceptions the creation sequence can raise
Exceptions == {"error"}

NoRec == [user |-> "none", status |-> "none", error_message |-> None, last_active_at |-> NoStamp]

\* a manager call in flight: its locals.  h is the adapter it holds, stale
\* the dead adapter it found in the pool, e the exception it caught, stamp
\* the datetime.now() in the update statement it is about to execute
IdleTask ==
    [op |-> "none", pc |-> "idle", user |-> "none", sid |-> 0, h |-> 0, evicted |-> <<>>,
     stale |-> 0, e |-> None, stamp |-> NoStamp]

\* the step just taken: which call completed, on which id and handle, what
\* it evicted, what it returned, the size or count it found, and the
\* handles whose cleanup() raised during it
Ev(ev, sid, h, evicted, ret, old) ==
    [ev |-> ev, sid |-> sid, h |-> h, evicted |-> evicted, ret |-> ret, old |-> old,
     raised |-> {}]

NoEv == Ev("none", 0, 0, <<>>, 0, 0)

Range(s) == {s[i] : i \in 1..Len(s)}

Max(a, b) == IF a >= b THEN a ELSE b

\* ---------------------------------------------------------------------
\* PoolEntry and the dict self._pool
\* ---------------------------------------------------------------------
PoolEntry(sid, adapter, t) ==
    [sid |-> sid, adapter |-> adapter, last_used |-> t, active_count |-> 0]

PoolIds(p) == {p[i].sid : i \in 1..Len(p)}

\* position of the key in the dict, 0 when absent
Idx(p, sid) ==
    IF sid \in PoolIds(p) THEN CHOOSE i \in 1..Len(p) : p[i].sid = sid ELSE 0

\* dict.pop(key)
Pop(p, sid) == SelectSeq(p, LAMBDA e : e.sid # sid)

\* dict[key] = entry: an existing key keeps its position, a new key is last
Store(p, e) ==
    IF e.sid \in PoolIds(p) THEN [p EXCEPT ![Idx(p, e.sid)] = e] ELSE Append(p, e)

\* ---------------------------------------------------------------------
\* Adapter handles (PydanticSandboxAdapter): constructing one starts the
\* container; closes counts the pool's _close_adapter calls on it; died is
\* the container ending on its own
\* ---------------------------------------------------------------------
NewAdapter == [closes |-> 0, died |-> FALSE]

is_started(ad, h) == ad[h].closes = 0 /\ ~ad[h].died

\* _close_adapter: adapter.cleanup(), errors swallowed
CloseAdapter(ad, h) == [ad EXCEPT ![h].closes = @ + 1]

LeavesCloseAdapterMutant(raised) == raised

\* _close_adapter: an exception of cleanup() is caught by except Exception
\* and logged; none leaves _close_adapter
LeavesCloseAdapter(raised) == FALSE

\* the calls of _close_adapter on hs in order, cleanup() raising for the
\* handles in F: an exception that left _close_adapter would end the loop
RECURSIVE CloseEach(_, _, _)
CloseEach(ad, hs, F) ==
    IF hs = <<>> THEN ad
    ELSE IF LeavesCloseAdapter(Head(hs) \in F) THEN CloseAdapter(ad, Head(hs))
    ELSE CloseEach(CloseAdapter(ad, Head(hs)), Tail(hs), F)

\* a step that closes hs: cleanup() raises for some of them or for none
Closing(ad, hs, ev) ==
    \E F \in (IF env.close_raises THEN SUBSET Range(hs) ELSE {{}}) :
        /\ adapters' = CloseEach(ad, hs, F)
        /\ last' = [ev EXCEPT !.raised = F]

\* ---------------------------------------------------------------------
\* _evict_lru
\* ---------------------------------------------------------------------
Infinity == MaxTime + 1

EvictableMutant(e) == TRUE

Evictable(e) == e.active_count = 0

LruBeforeMutant(t, lru_time) == t > lru_time

LruBefore(t, lru_time) == t < lru_time

\* the loop of _evict_lru from position i on, with the running lru_sid
\* (0 for None) and lru_time
RECURSIVE LruScan(_, _, _, _)
LruScan(p, i, lru_sid, lru_time) ==
    IF i > Len(p) THEN lru_sid
    ELSE IF Evictable(p[i]) /\ LruBefore(p[i].last_used, lru_time)
         THEN LruScan(p, i + 1, p[i].sid, p[i].last_used)
         ELSE LruScan(p, i + 1, lru_sid, lru_time)

LruSid(p) == LruScan(p, 1, 0, Infinity)

NeedsEvictMutant(p, m) == Len(p) > m

NeedsEvict(p, m) == Len(p) >= m

\* the ids put evicts before inserting: at most one
PutEvicted(p, m) ==
    IF NeedsEvict(p, m) /\ LruSid(p) # 0 THEN <<LruSid(p)>> ELSE <<>>

\* ---------------------------------------------------------------------
\* cleanup_idle
\* ---------------------------------------------------------------------
ExpiredMutant(e, t) == (t - e.last_used) >= IdleTimeout

\* (now - entry.last_used) > self._idle_timeout
Expired(e, t) == (t - e.last_used) > IdleTimeout

IsIdleMutant(e, t) == (t - e.last_used) > IdleTimeout

IsIdle(e, t) == e.active_count = 0 /\ Expired(e, t)

ToRemoveMutant(p, t) ==
    LET sel == SelectSeq(p, LAMBDA e : Expired(e, t))
    IN  [i \in 1..Len(sel) |-> sel[i].sid]

\* first pass: to_remove, in dict order
ToRemove(p, t) ==
    LET sel == SelectSeq(p, LAMBDA e : IsIdle(e, t))
    IN  [i \in 1..Len(sel) |-> sel[i].sid]

\* ---------------------------------------------------------------------
\* release
\* ---------------------------------------------------------------------
ReleasedCountMutant(c) == c - 1

ReleasedCount(c) == Max(0, c - 1)

\* ---------------------------------------------------------------------
\* Pool methods as steps on pool and adapters
\* ---------------------------------------------------------------------
AdapterOf(p, sid) == IF sid \in PoolIds(p) THEN p[Idx(p, sid)].adapter ELSE 0

\* get: None (0) when shut down or absent
GetResult(sid) == IF shutdown THEN 0 ELSE AdapterOf(pool, sid)

PoolAfterGetMutant(sid) ==
    IF GetResult(sid) = 0 THEN pool
    ELSE [pool EXCEPT ![Idx(pool, sid)].active_count = @ + 1]

PoolAfterGet(sid) ==
    IF GetResult(sid) = 0 THEN pool
    ELSE [pool EXCEPT ![Idx(pool, sid)].last_used = now,
                      ![Idx(pool, sid)].active_count = @ + 1]

\* put: the pool after the eviction, then after the insertion
PoolAfterEvict ==
    IF PutEvicted(pool, max_size) = <<>> THEN pool ELSE Pop(pool, PutEvicted(pool, max_size)[1])

PutEntryMutant(sid, h) ==
    [PoolEntry(sid, h, now) EXCEPT
        !.active_count = IF sid \in PoolIds(pool) THEN pool[Idx(pool, sid)].active_count ELSE 1]

\* entry = PoolEntry(adapter); entry.active_count = 1
PutEntry(sid, h) == [PoolEntry(sid, h, now) EXCEPT !.active_count = 1]

PoolAfterPutMutant(sid, h) ==
    Store(PoolAfterEvict, [PoolEntry(sid, h, now) EXCEPT !.active_count = 1])

PoolAfterPut(sid, h) ==
    IF shutdown THEN pool
    ELSE Store(PoolAfterEvict, PutEntry(sid, h))

PutClosesMutant(sid, h) ==
    IF shutdown THEN <<h>>
    ELSE IF PutEvicted(pool, max_size) = <<>> THEN <<>>
         ELSE <<AdapterOf(pool, PutEvicted(pool, max_size)[1])>>

\* the handles put closes, in the order it closes them
PutCloses(sid, h) ==
    IF shutdown THEN <<h>>
    ELSE (IF PutEvicted(pool, max_size) = <<>> THEN <<>>
          ELSE <<AdapterOf(pool, PutEvicted(pool, max_size)[1])>>)
         \o (IF sid \in PoolIds(PoolAfterEvict) THEN <<AdapterOf(PoolAfterEvict, sid)>> ELSE <<>>)

PoolAfterRelease(sid) ==
    IF sid \in PoolIds(pool)
    THEN [pool EXCEPT ![Idx(pool, sid)].active_count = ReleasedCount(@),
                      ![Idx(pool, sid)].last_used = now]
    ELSE pool

PoolAfterRemoveMutant(sid) ==
    IF sid \in PoolIds(pool) /\ pool[Idx(pool, sid)].active_count > 0 THEN pool ELSE Pop(pool, sid)

\* remove: pop the entry whatever its active_count
PoolAfterRemove(sid) == Pop(pool, sid)

RemoveClosesMutant(sid) == <<>>

\* remove: the handle it closes, if the id is pooled
RemoveCloses(sid) == IF sid \in PoolIds(pool) THEN <<AdapterOf(pool, sid)>> ELSE <<>>

RECURSIVE PopAll(_, _)
PopAll(p, sids) == IF sids = <<>> THEN p ELSE PopAll(Pop(p, Head(sids)), Tail(sids))

SweepCloses == [i \in 1..Len(ToRemove(pool, now)) |-> AdapterOf(pool, ToRemove(pool, now)[i])]

AllAdapters(p) == [i \in 1..Len(p) |-> p[i].adapter]

\* ---------------------------------------------------------------------
\* Init
\* ---------------------------------------------------------------------
\* a pool constructed with one of the capacities, nothing called yet
InitPool ==
    /\ pool = <<>>
    /\ max_size \in MaxSizes
    /\ shutdown = FALSE
    /\ now = 0
    /\ adapters = <<>>
    /\ records = [s \in Ids |-> NoRec]
    /\ nextId = 1
    /\ tasks = [t \in Tasks |-> IdleTask]
    /\ calls = 0
    /\ last = NoEv

\* ---------------------------------------------------------------------
\* Direct calls of the pool's methods
\* ---------------------------------------------------------------------
PoolFrame == UNCHANGED <<max_size, env, records, nextId, tasks>>

\* the number of outstanding references to one entry is capped
GetBounded(sid) == sid \in PoolIds(pool) => pool[Idx(pool, sid)].active_count < MaxActive

PoolGet(sid) ==
    /\ GetBounded(sid)
    /\ pool' = PoolAfterGet(sid)
    /\ last' = Ev("get", sid, GetResult(sid), <<>>, 0, 0)
    /\ UNCHANGED <<shutdown, now, adapters>>
    /\ PoolFrame

\* put of a handle the caller has just constructed
PoolPut(sid) ==
    /\ Len(adapters) < MaxHandles
    /\ LET h  == Len(adapters) + 1
           ad == Append(adapters, NewAdapter)
       IN  /\ pool' = PoolAfterPut(sid, h)
           /\ Closing(ad, PutCloses(sid, h),
                      Ev("put", sid, h, PutEvicted(pool, max_size), 0, Len(pool)))
    /\ UNCHANGED <<shutdown, now>>
    /\ PoolFrame

PoolRelease(sid) ==
    /\ pool' = PoolAfterRelease(sid)
    /\ last' = Ev("release", sid, 0, <<>>, 0, IF sid \in PoolIds(pool) THEN pool[Idx(pool, sid)].active_count ELSE -1)
    /\ UNCHANGED <<shutdown, now, adapters>>
    /\ PoolFrame

PoolRemove(sid) ==
    /\ pool' = PoolAfterRemove(sid)
    /\ Closing(adapters, RemoveCloses(sid),
               Ev("remove", sid, AdapterOf(pool, sid), <<>>, 0,
                  IF sid \in PoolIds(pool) THEN pool[Idx(pool, sid)].active_count ELSE -1))
    /\ UNCHANGED <<shutdown, now>>
    /\ PoolFrame

PoolCleanupIdle ==
    /\ pool' = PopAll(pool, ToRemove(pool, now))
    /\ Closing(adapters, SweepCloses, Ev("cleanup_idle", 0, 0, ToRemove(pool, now), 0, 0))
    /\ UNCHANGED <<shutdown, now>>
    /\ PoolFrame

PoolShutdown ==
    /\ ~shutdown
    /\ shutdown' = TRUE
    /\ pool' = <<>>
    /\ Closing(adapters, AllAdapters(pool), Ev("shutdown", 0, 0, <<>>, 0, 0))
    /\ UNCHANGED now
    /\ PoolFrame

\* time.time() advances
Tick ==
    /\ now < MaxTime
    /\ now' = now + 1
    /\ last' = NoEv
    /\ UNCHANGED <<pool, max_size, env, shutdown, adapters, records, nextId, tasks, calls>>

\* a direct call of a pool method; the number of them in one run is capped
PoolCall == calls < MaxPoolCalls /\ calls' = calls + 1

PoolNext ==
    \/ \E sid \in Ids : PoolCall /\ PoolGet(sid)
    \/ \E sid \in Ids : PoolCall /\ PoolPut(sid)
    \/ \E sid \in Ids : PoolCall /\ PoolRelease(sid)
    \/ \E sid \in Ids : PoolCall /\ PoolRemove(sid)
    \/ PoolCall /\ PoolCleanupIdle
    \/ PoolCall /\ PoolShutdown
    \/ Tick

PoolInit == InitPool /\ env = Concurrent

PoolSpec == PoolInit /\ [][PoolNext]_vars

\* ---------------------------------------------------------------------
\* Record store (table user_sandbox)
\* ---------------------------------------------------------------------
\* select(UserSandbox).where(user_id == u).scalar_one_or_none(): 0 for None
RecordOf(u) ==
    IF \E s \in Ids : records[s].user = u
    THEN CHOOSE s \in Ids : records[s].user = u
    ELSE 0

\* update(UserSandbox).where(id == sid).values(status=...): no row, no change
UpdateStatus(recs, sid, st) ==
    IF recs[sid] = NoRec THEN recs ELSE [recs EXCEPT ![sid].status = st]

\* datetime.now(timezone.utc), evaluated when an update statement is built
DatetimeNow == IF env.clock THEN now ELSE NoStamp

update_last_activeMutant(recs, sid, stamp) ==
    IF recs[sid] = NoRec THEN recs
    ELSE [recs EXCEPT ![sid].last_active_at = stamp, ![sid].status = "running",
                      ![sid].error_message = None]

\* _update_last_active, and the last_active_at value of stop_sandbox's update
update_last_active(recs, sid, stamp) ==
    IF recs[sid] = NoRec THEN recs ELSE [recs EXCEPT ![sid].last_active_at = stamp]

\* _update_status: status and last_active_at are written; error_message is
\* written when given, and set to NULL when it is not given and the status
\* is running
update_status(recs, sid, st, error_message, stamp) ==
    IF recs[sid] = NoRec THEN recs
    ELSE [recs EXCEPT ![sid].status = st,
                      ![sid].last_active_at = stamp,
                      ![sid].error_message =
                          IF error_message # None THEN error_message
                          ELSE IF st = "running" THEN None ELSE @]

SyncStoppedMutant(recs, sids) == recs

\* update(UserSandbox).where(id.in_(evicted_ids)).values(status="stopped")
SyncStopped(recs, sids) ==
    [s \in Ids |-> IF s \in Range(sids) THEN UpdateStatus(recs, s, "stopped")[s] ELSE recs[s]]

\* no manager call is in flight
Alone == \A t \in Tasks : tasks[t].pc = "idle"

\* a call starts; the number of calls in one run is capped.  In a serial
\* run each call is awaited before the next one is made.
Begin ==
    /\ IF env.serial THEN calls < MaxSeqCalls /\ Alone ELSE calls < MaxCalls
    /\ calls' = calls + 1

\* a manager call starts as task t: the lowest-numbered task not in a call
BeginTask(t) ==
    /\ tasks[t].pc = "idle"
    /\ \A t2 \in Tasks : t2 < t => tasks[t2].pc # "idle"
    /\ Begin

SetTask(t, r) == tasks' = [tasks EXCEPT ![t] = r]

Goto(t, pc) == SetTask(t, [tasks[t] EXCEPT !.pc = pc])

\* ---------------------------------------------------------------------
\* ensure_sandbox_running
\* ---------------------------------------------------------------------
\* get_user_sandbox_record; a missing record leads into create_sandbox_record
EnsureLookup(t, u) ==
    /\ BeginTask(t)
    /\ RecordOf(u) = 0 => nextId < NeverIssued
    /\ SetTask(t, [IdleTask EXCEPT !.op = "ensure", !.user = u, !.sid = RecordOf(u),
                                   !.pc = IF RecordOf(u) = 0 THEN "create_check" ELSE "get"])
    /\ last' = NoEv
    /\ UNCHANGED <<pool, max_size, env, shutdown, now, adapters, records, nextId>>

\* create_sandbox_record: the check for an existing record
CreateCheck(t) ==
    /\ tasks[t].pc = "create_check"
    /\ UNCHANGED calls
    /\ SetTask(t, [tasks[t] EXCEPT !.sid = RecordOf(tasks[t].user),
                                   !.pc = IF RecordOf(tasks[t].user) = 0 THEN "create_insert" ELSE "get"])
    /\ last' = NoEv
    /\ UNCHANGED <<pool, max_size, env, shutdown, now, adapters, records, nextId>>

UniqueViolationMutant(recs, u) == FALSE

\* user_id is unique: an insert for a user that has a row is rejected
UniqueViolation(recs, u) == \E s \in Ids : recs[s].user = u

\* create_sandbox_record: add, commit, refresh; user_id is unique, so the
\* commit of a second record for the user raises out of ensure_sandbox_running
CreateInsert(t) ==
    /\ tasks[t].pc = "create_insert"
    /\ UNCHANGED calls
    /\ IF UniqueViolation(records, tasks[t].user)
       THEN /\ SetTask(t, IdleTask)
            /\ last' = Ev("ensure_error", 0, 0, <<>>, 0, 0)
            /\ UNCHANGED <<records, nextId>>
       ELSE /\ nextId < NeverIssued
            /\ records' = [records EXCEPT ![nextId] = [user |-> tasks[t].user, status |-> "pending",
                                                        error_message |-> None,
                                                        last_active_at |-> NoStamp]]
            /\ nextId' = nextId + 1
            /\ SetTask(t, [tasks[t] EXCEPT !.sid = nextId, !.pc = "get"])
            /\ last' = Ev("create", nextId, 0, <<>>, 0, 0)
    /\ UNCHANGED <<pool, max_size, env, shutdown, now, adapters>>

\* _sandbox_pool.get and the is_started check
EnsureGet(t) ==
    /\ tasks[t].pc = "get"
    /\ UNCHANGED calls
    /\ GetBounded(tasks[t].sid)
    /\ LET sid == tasks[t].sid
           h   == GetResult(sid)
       IN  /\ pool' = PoolAfterGet(sid)
           /\ SetTask(t, [tasks[t] EXCEPT !.h = h,
                    !.pc = IF h = 0 THEN "creating"
                           ELSE IF is_started(adapters, h) THEN "touch" ELSE "remove",
                    !.stamp = IF h # 0 /\ ~is_started(adapters, h) THEN NoStamp ELSE DatetimeNow])
           /\ last' = Ev("get", sid, h, <<>>, 0, 0)
    /\ UNCHANGED <<max_size, env, shutdown, now, adapters, records, nextId>>

\* the handle was live: _update_last_active, return it
EnsureTouch(t) ==
    /\ tasks[t].pc = "touch"
    /\ UNCHANGED calls
    /\ records' = update_last_active(records, tasks[t].sid, tasks[t].stamp)
    /\ SetTask(t, IdleTask)
    /\ last' = Ev("ensure_ret", tasks[t].sid, tasks[t].h, <<>>, 0, 0)
    /\ UNCHANGED <<pool, max_size, env, shutdown, now, adapters, nextId>>

\* the handle was dead: _sandbox_pool.remove
EnsureRemove(t) ==
    /\ tasks[t].pc = "remove"
    /\ UNCHANGED calls
    /\ pool' = Pop(pool, tasks[t].sid)
    /\ Closing(adapters, RemoveCloses(tasks[t].sid),
               Ev("remove", tasks[t].sid, AdapterOf(pool, tasks[t].sid), <<>>, 0, 0))
    /\ SetTask(t, [tasks[t] EXCEPT !.h = 0, !.stale = tasks[t].h, !.pc = "creating",
                                   !.stamp = DatetimeNow])
    /\ UNCHANGED <<max_size, env, shutdown, now, records, nextId>>

\* an exception raised inside the try block is caught by except Exception
Catch(t, e) == SetTask(t, [tasks[t] EXCEPT !.pc = "failed", !.e = e, !.stamp = DatetimeNow])

\* _update_status(creating), os.makedirs, then the PydanticSandboxAdapter
\* constructor, which starts the container.  The write may raise and then
\* has written nothing; makedirs or the constructor may raise after it.
EnsureCreating(t) ==
    /\ tasks[t].pc = "creating"
    /\ UNCHANGED calls
    /\ \/ /\ Len(adapters) < MaxHandles
          /\ records' = update_status(records, tasks[t].sid, "creating", None, tasks[t].stamp)
          /\ adapters' = Append(adapters, NewAdapter)
          /\ SetTask(t, [tasks[t] EXCEPT !.h = Len(adapters) + 1, !.pc = "put",
                                         !.stamp = NoStamp])
          /\ last' = Ev("start", tasks[t].sid, Len(adapters) + 1, <<>>, 0, 0)
       \/ /\ records' = update_status(records, tasks[t].sid, "creating", None, tasks[t].stamp)
          /\ UNCHANGED adapters
          /\ \E e \in Exceptions : Catch(t, e)
          /\ last' = Ev("start_raise", tasks[t].sid, 0, <<>>, 0, 0)
       \/ /\ env.write_raises
          /\ UNCHANGED <<records, adapters>>
          /\ \E e \in Exceptions : Catch(t, e)
          /\ last' = Ev("write_raise", tasks[t].sid, 0, <<>>, 0, 0)
    /\ UNCHANGED <<pool, max_size, env, shutdown, now, nextId>>

\* _sandbox_pool.put
EnsurePut(t) ==
    /\ tasks[t].pc = "put"
    /\ UNCHANGED calls
    /\ pool' = PoolAfterPut(tasks[t].sid, tasks[t].h)
    /\ Closing(adapters, PutCloses(tasks[t].sid, tasks[t].h),
               Ev("put", tasks[t].sid, tasks[t].h, PutEvicted(pool, max_size), 0, Len(pool)))
    /\ SetTask(t, [tasks[t] EXCEPT !.pc = "running", !.evicted = PutEvicted(pool, max_size),
                                   !.stamp = DatetimeNow])
    /\ UNCHANGED <<max_size, env, shutdown, now, records, nextId>>

\* _update_status(running), return the adapter; the write may raise and
\* then has written nothing
EnsureRunning(t) ==
    /\ tasks[t].pc = "running"
    /\ UNCHANGED calls
    /\ \/ /\ records' = update_status(records, tasks[t].sid, "running", None, tasks[t].stamp)
          /\ SetTask(t, IdleTask)
          /\ last' = Ev("ensure_ret", tasks[t].sid, tasks[t].h, tasks[t].evicted, 0, tasks[t].stale)
       \/ /\ env.write_raises
          /\ UNCHANGED records
          /\ \E e \in Exceptions : Catch(t, e)
          /\ last' = Ev("write_raise", tasks[t].sid, tasks[t].h, <<>>, 0, 0)
    /\ UNCHANGED <<pool, max_size, env, shutdown, now, adapters, nextId>>

\* str(e), the text stored in error_message
FailureMessageMutant(e) == None

FailureMessage(e) == e

\* except: _update_status(failed, error_message=str(e)), raise
\* HTTPException(503)
EnsureFailed(t) ==
    /\ tasks[t].pc = "failed"
    /\ UNCHANGED calls
    /\ records' = update_status(records, tasks[t].sid, "failed", FailureMessage(tasks[t].e),
                                tasks[t].stamp)
    /\ SetTask(t, IdleTask)
    /\ last' = Ev("ensure_raise", tasks[t].sid, 0, <<>>, 503, tasks[t].stale)
    /\ UNCHANGED <<pool, max_size, env, shutdown, now, adapters, nextId>>

\* ---------------------------------------------------------------------
\* stop_sandbox, restart_sandbox, delete_sandbox
\* ---------------------------------------------------------------------
AdminOps == {"stop", "restart", "delete"}

\* stop_sandbox, called directly or first thing by restart and delete:
\* _sandbox_pool.remove
StopRemove(t, op, sid) ==
    /\ BeginTask(t)
    /\ sid < nextId \/ sid = NeverIssued
    /\ pool' = Pop(pool, sid)
    /\ Closing(adapters, RemoveCloses(sid), Ev("remove", sid, AdapterOf(pool, sid), <<>>, 0, 0))
    /\ SetTask(t, [IdleTask EXCEPT !.op = op, !.sid = sid, !.pc = "stop_write",
                                  !.stamp = DatetimeNow])
    /\ UNCHANGED <<max_size, env, shutdown, now, records, nextId>>

\* stop_sandbox: the update to stopped; returns rowcount > 0
StopWrite(t) ==
    /\ tasks[t].pc = "stop_write"
    /\ UNCHANGED calls
    /\ records' = update_last_active(UpdateStatus(records, tasks[t].sid, "stopped"),
                                     tasks[t].sid, tasks[t].stamp)
    /\ IF tasks[t].op = "stop"
       THEN /\ SetTask(t, IdleTask)
            /\ last' = Ev("stop_ret", tasks[t].sid, 0, <<>>, records[tasks[t].sid] # NoRec, 0)
       ELSE /\ Goto(t, IF tasks[t].op = "restart" THEN "restart_select" ELSE "delete_row")
            /\ last' = Ev("stop_write", tasks[t].sid, 0, <<>>, 0, 0)
    /\ UNCHANGED <<pool, max_size, env, shutdown, now, adapters, nextId>>

RestartResultMutant(recs, sid) == TRUE

\* record = scalar_one_or_none(); if not record: return False; return True
RestartResult(recs, sid) == recs[sid] # NoRec

\* restart_sandbox: select the record, return whether it exists
RestartSelect(t) ==
    /\ tasks[t].pc = "restart_select"
    /\ UNCHANGED calls
    /\ SetTask(t, IdleTask)
    /\ last' = Ev("restart_ret", tasks[t].sid, 0, <<>>, RestartResult(records, tasks[t].sid), 0)
    /\ UNCHANGED <<pool, max_size, env, shutdown, now, adapters, records, nextId>>

DeleteRecordMutant(recs, sid) == recs

\* delete(UserSandbox).where(id == sid)
DeleteRecord(recs, sid) == [recs EXCEPT ![sid] = NoRec]

\* delete_sandbox: delete the row, return rowcount > 0
DeleteRow(t) ==
    /\ tasks[t].pc = "delete_row"
    /\ UNCHANGED calls
    /\ records' = DeleteRecord(records, tasks[t].sid)
    /\ SetTask(t, IdleTask)
    /\ last' = Ev("delete_ret", tasks[t].sid, 0, <<>>, records[tasks[t].sid] # NoRec, 0)
    /\ UNCHANGED <<pool, max_size, env, shutdown, now, adapters, nextId>>

\* ---------------------------------------------------------------------
\* cleanup_idle_sandboxes
\* ---------------------------------------------------------------------
\* _sandbox_pool.cleanup_idle; with nothing evicted it returns 0 at once
CleanupSweep(t) ==
    /\ BeginTask(t)
    /\ pool' = PopAll(pool, ToRemove(pool, now))
    /\ IF ToRemove(pool, now) = <<>>
       THEN /\ SetTask(t, IdleTask)
            /\ last' = Ev("cleanup_ret", 0, 0, <<>>, 0, 0)
            /\ UNCHANGED adapters
       ELSE /\ SetTask(t, [IdleTask EXCEPT !.op = "cleanup", !.pc = "sync",
                                           !.evicted = ToRemove(pool, now)])
            /\ Closing(adapters, SweepCloses, Ev("cleanup_idle", 0, 0, ToRemove(pool, now), 0, 0))
    /\ UNCHANGED <<max_size, env, shutdown, now, records, nextId>>

\* the batch update of the evicted ids to stopped; returns len(evicted_ids)
CleanupSync(t) ==
    /\ tasks[t].pc = "sync"
    /\ UNCHANGED calls
    /\ records' = SyncStopped(records, tasks[t].evicted)
    /\ SetTask(t, IdleTask)
    /\ last' = Ev("cleanup_ret", 0, 0, tasks[t].evicted, Len(tasks[t].evicted), 0)
    /\ UNCHANGED <<pool, max_size, env, shutdown, now, adapters, nextId>>

\* ---------------------------------------------------------------------
\* Environment: a container ends on its own
\* ---------------------------------------------------------------------
Die(h) ==
    /\ h \in Range(AllAdapters(pool))
    /\ is_started(adapters, h)
    /\ adapters' = [adapters EXCEPT ![h].died = TRUE]
    /\ last' = NoEv
    /\ UNCHANGED <<pool, max_size, env, shutdown, now, records, nextId, tasks, calls>>

\* a caller that holds a reference to the entry gives it back
CallerRelease(sid) ==
    /\ sid \in PoolIds(pool)
    /\ pool[Idx(pool, sid)].active_count > 0
    /\ PoolRelease(sid)
    /\ UNCHANGED calls

\* the manager's module-level pool, its capacity scaled down to one entry
Init == InitPool /\ max_size = 1 /\ env = Concurrent

Next ==
    \/ \E t \in Tasks, u \in Users : EnsureLookup(t, u)
    \/ \E t \in Tasks : CreateCheck(t)
    \/ \E t \in Tasks : CreateInsert(t)
    \/ \E t \in Tasks : EnsureGet(t)
    \/ \E t \in Tasks : EnsureTouch(t)
    \/ \E t \in Tasks : EnsureRemove(t)
    \/ \E t \in Tasks : EnsureCreating(t)
    \/ \E t \in Tasks : EnsurePut(t)
    \/ \E t \in Tasks : EnsureRunning(t)
    \/ \E t \in Tasks : EnsureFailed(t)
    \/ \E t \in Tasks, op \in AdminOps, sid \in Ids : StopRemove(t, op, sid)
    \/ \E t \in Tasks : StopWrite(t)
    \/ \E t \in Tasks : RestartSelect(t)
    \/ \E t \in Tasks : DeleteRow(t)
    \/ \E t \in Tasks : CleanupSweep(t)
    \/ \E t \in Tasks : CleanupSync(t)
    \/ \E sid \in Ids : CallerRelease(sid)
    \/ Begin /\ PoolShutdown
    \/ \E h \in Handles : Die(h)
    \/ Tick

Spec == Init /\ [][Next]_vars

\* runs made of ensure_sandbox_running calls only, with the pool possibly
\* shut down and containers possibly ending
EnsureNext ==
    \/ \E t \in Tasks, u \in Users : EnsureLookup(t, u)
    \/ \E t \in Tasks : CreateCheck(t)
    \/ \E t \in Tasks : CreateInsert(t)
    \/ \E t \in Tasks : EnsureGet(t)
    \/ \E t \in Tasks : EnsureTouch(t)
    \/ \E t \in Tasks : EnsureRemove(t)
    \/ \E t \in Tasks : EnsureCreating(t)
    \/ \E t \in Tasks : EnsurePut(t)
    \/ \E t \in Tasks : EnsureRunning(t)
    \/ \E t \in Tasks : EnsureFailed(t)
    \/ Begin /\ PoolShutdown
    \/ \E h \in Handles : Die(h)

EnsureSpec == Init /\ [][EnsureNext]_vars

\* runs in which every call is awaited before the next one is made, and in
\* which the writes of the creation sequence may raise
SeqInit == InitPool /\ max_size = 1 /\ env = Serial

SeqSpec == SeqInit /\ [][Next]_vars

\* runs made of the manager's own operations: nothing in the manager calls
\* the pool's release or shutdown.  cleanup_idle_sandboxes is its sweep; the
\* batch update follows only a sweep that evicted something.
ManagerNext ==
    \/ \E t \in Tasks, u \in Users : EnsureLookup(t, u)
    \/ \E t \in Tasks : CreateCheck(t)
    \/ \E t \in Tasks : CreateInsert(t)
    \/ \E t \in Tasks : EnsureGet(t)
    \/ \E t \in Tasks : EnsureTouch(t)
    \/ \E t \in Tasks : EnsureRemove(t)
    \/ \E t \in Tasks : EnsureCreating(t)
    \/ \E t \in Tasks : EnsurePut(t)
    \/ \E t \in Tasks : EnsureRunning(t)
    \/ \E t \in Tasks : EnsureFailed(t)
    \/ \E t \in Tasks, op \in AdminOps, sid \in Ids : StopRemove(t, op, sid)
    \/ \E t \in Tasks : StopWrite(t)
    \/ \E t \in Tasks : RestartSelect(t)
    \/ \E t \in Tasks : DeleteRow(t)
    \/ \E t \in Tasks : CleanupSweep(t)
    \/ \E h \in Handles : Die(h)
    \/ Tick

ManagerSpec == Init /\ [][ManagerNext]_vars

\* concurrent calls, with last_active_at carried by the records
ClockInit == InitPool /\ max_size = 1 /\ env = Clocked

ClockSpec == ClockInit /\ [][Next]_vars

\* concurrent calls in which cleanup() may raise, made once a first
\* ensure_sandbox_running("u1") has returned and its caller holds the handle
CloseInit ==
    /\ pool = <<[PoolEntry(1, 1, 0) EXCEPT !.active_count = 1]>>
    /\ max_size = 1
    /\ shutdown = FALSE
    /\ now = 0
    /\ adapters = <<NewAdapter>>
    /\ records = [s \in Ids |-> IF s = 1
                                  THEN [user |-> "u1", status |-> "running",
                                        error_message |-> None, last_active_at |-> NoStamp]
                                  ELSE NoRec]
    /\ nextId = 2
    /\ tasks = [t \in Tasks |-> IdleTask]
    /\ calls = 0
    /\ last = NoEv
    /\ env = Raising

\* the calls that reach _close_adapter: ensure_sandbox_running, stop_sandbox,
\* cleanup_idle_sandboxes and the pool's shutdown
CloseNext ==
    \/ \E t \in Tasks, u \in Users : EnsureLookup(t, u)
    \/ \E t \in Tasks : CreateCheck(t)
    \/ \E t \in Tasks : CreateInsert(t)
    \/ \E t \in Tasks : EnsureGet(t)
    \/ \E t \in Tasks : EnsureTouch(t)
    \/ \E t \in Tasks : EnsureRemove(t)
    \/ \E t \in Tasks : EnsureCreating(t)
    \/ \E t \in Tasks : EnsurePut(t)
    \/ \E t \in Tasks : EnsureRunning(t)
    \/ \E t \in Tasks : EnsureFailed(t)
    \/ \E t \in Tasks, sid \in Ids : StopRemove(t, "stop", sid)
    \/ \E t \in Tasks : StopWrite(t)
    \/ \E t \in Tasks : CleanupSweep(t)
    \/ \E t \in Tasks : CleanupSync(t)
    \/ \E sid \in Ids : CallerRelease(sid)
    \/ Begin /\ PoolShutdown
    \/ \E h \in Handles : Die(h)
    \/ Tick

CloseSpec == CloseInit /\ [][CloseNext]_vars

\* calls that do not overlap, with last_active_at carried by the records
SeqClockInit == InitPool /\ max_size = 1 /\ env = SerialClocked

SeqClockSpec == SeqClockInit /\ [][Next]_vars

\* ---------------------------------------------------------------------
\* The pool's methods step by step, with self._lock
\* ---------------------------------------------------------------------
\* a pool call in flight.  pc "lock": waiting in `async with self._lock`.
\* closing: the handle whose _close_adapter call is in progress.  to_remove:
\* the list of cleanup_idle, or the adapters collected by shutdown; i: how
\* many of them have been processed.  now: the time.time() cleanup_idle read
\* before it asked for the lock
Proc(op, sid, h) ==
    [op |-> op, pc |-> "lock", sid |-> sid, h |-> h, to_remove |-> <<>>, i |-> 0,
     closing |-> 0, now |-> now]

\* the positions inside `async with self._lock`; the last two are those of
\* a method that asks for the lock it holds and of a task that ended
\* without releasing it
HeldPcs ==
    {"put_close_given", "put_close_lru", "put_close_old", "sweep_pop", "sweep_close",
     "evict_lock", "abandoned"}

\* the positions inside _close_adapter
ClosingPcs ==
    {"put_close_given", "put_close_lru", "put_close_old", "sweep_close", "remove_close",
     "shut_close"}

\* asyncio.Lock.locked()
Locked == \E t \in Tasks : tasks[t].pc \in HeldPcs

CanAcquireMutant == TRUE

\* asyncio.Lock.acquire returns only while the lock is free
CanAcquire == ~Locked

EvictLruLocksMutant == TRUE

\* _evict_lru and _close_adapter contain no `async with self._lock`
EvictLruLocks == FALSE

CancelledMutant(p) == IF p.pc \in HeldPcs THEN [p EXCEPT !.pc = "abandoned"] ELSE IdleTask

\* a cancelled task unwinds: __aexit__ of `async with` releases the lock
Cancelled(p) == IdleTask

LockFrame == UNCHANGED <<max_size, env, records, nextId>>

\* a pool call starts as task t: the lowest-numbered task not in a call
LBegin(t) ==
    /\ tasks[t].pc = "idle"
    /\ \A t2 \in Tasks : t2 < t => tasks[t2].pc # "idle"
    /\ calls < MaxLockCalls
    /\ calls' = calls + 1

LDone(t, ev) == SetTask(t, IdleTask) /\ last' = ev

LMove(t, r) == SetTask(t, r) /\ last' = NoEv

\* get, release or remove is called
LCall(t, op, sid) ==
    /\ LBegin(t)
    /\ LMove(t, Proc(op, sid, 0))
    /\ UNCHANGED <<pool, shutdown, now, adapters>>
    /\ LockFrame

\* put is called with a handle the caller has just constructed
LCallPut(t, sid) ==
    /\ LBegin(t)
    /\ Len(adapters) < MaxHandles
    /\ adapters' = Append(adapters, NewAdapter)
    /\ LMove(t, Proc("put", sid, Len(adapters) + 1))
    /\ UNCHANGED <<pool, shutdown, now>>
    /\ LockFrame

\* cleanup_idle is called: now = time.time(), before the lock
LCallSweep(t) ==
    /\ LBegin(t)
    /\ LMove(t, Proc("cleanup_idle", 0, 0))
    /\ UNCHANGED <<pool, shutdown, now, adapters>>
    /\ LockFrame

\* shutdown is called: self._shutdown = True, before the lock
LCallShutdown(t) ==
    /\ LBegin(t)
    /\ ~shutdown
    /\ shutdown' = TRUE
    /\ LMove(t, Proc("shutdown", 0, 0))
    /\ UNCHANGED <<pool, now, adapters>>
    /\ LockFrame

\* task t is let into `async with self._lock` of method op
Acquires(t, op) == tasks[t].pc = "lock" /\ tasks[t].op = op /\ CanAcquire

\* get: its body has no await
LGet(t) ==
    /\ Acquires(t, "get")
    /\ pool' = PoolAfterGet(tasks[t].sid)
    /\ LDone(t, Ev("get", tasks[t].sid, GetResult(tasks[t].sid), <<>>, 0, 0))
    /\ UNCHANGED <<shutdown, now, adapters, calls>>
    /\ LockFrame

\* release: its body has no await
LRelease(t) ==
    /\ Acquires(t, "release")
    /\ pool' = PoolAfterRelease(tasks[t].sid)
    /\ LDone(t, Ev("release", tasks[t].sid, 0, <<>>, 0, 0))
    /\ UNCHANGED <<shutdown, now, adapters, calls>>
    /\ LockFrame

\* remove: pop under the lock, leave the lock, then close
LRemove(t) ==
    /\ Acquires(t, "remove")
    /\ pool' = PoolAfterRemove(tasks[t].sid)
    /\ IF tasks[t].sid \in PoolIds(pool)
       THEN LMove(t, [tasks[t] EXCEPT !.pc = "remove_close",
                                     !.closing = AdapterOf(pool, tasks[t].sid)])
       ELSE LDone(t, Ev("remove", tasks[t].sid, 0, <<>>, 0, 0))
    /\ UNCHANGED <<shutdown, now, adapters, calls>>
    /\ LockFrame

LRemoveClose(t) ==
    /\ tasks[t].pc = "remove_close"
    /\ adapters' = CloseAdapter(adapters, tasks[t].closing)
    /\ LDone(t, Ev("remove", tasks[t].sid, tasks[t].closing, <<>>, 0, 0))
    /\ UNCHANGED <<pool, shutdown, now, calls>>
    /\ LockFrame

\* put from `if sandbox_id in self._pool` on, the pool being p: close the
\* old handle first, or store the entry and leave the lock
PutRest(t, p) ==
    IF tasks[t].sid \in PoolIds(p)
    THEN /\ pool' = p
         /\ LMove(t, [tasks[t] EXCEPT !.pc = "put_close_old",
                                     !.closing = AdapterOf(p, tasks[t].sid)])
    ELSE /\ pool' = Store(p, PutEntry(tasks[t].sid, tasks[t].h))
         /\ LDone(t, Ev("put", tasks[t].sid, tasks[t].h, tasks[t].to_remove, 0, 0))

\* put enters the lock: the shutdown test, the capacity test and the scan
\* and pop of _evict_lru
LPut(t) ==
    /\ Acquires(t, "put")
    /\ IF shutdown
       THEN /\ pool' = pool
            /\ LMove(t, [tasks[t] EXCEPT !.pc = "put_close_given", !.closing = tasks[t].h])
       ELSE IF NeedsEvict(pool, max_size) /\ EvictLruLocks
       THEN /\ pool' = pool
            /\ LMove(t, [tasks[t] EXCEPT !.pc = "evict_lock"])
       ELSE IF PutEvicted(pool, max_size) # <<>>
       THEN /\ pool' = Pop(pool, LruSid(pool))
            /\ LMove(t, [tasks[t] EXCEPT !.pc = "put_close_lru",
                                        !.closing = AdapterOf(pool, LruSid(pool)),
                                        !.to_remove = <<LruSid(pool)>>])
       ELSE PutRest(t, pool)
    /\ UNCHANGED <<shutdown, now, adapters, calls>>
    /\ LockFrame

\* the close inside _evict_lru returns, put goes on
LPutCloseLru(t) ==
    /\ tasks[t].pc = "put_close_lru"
    /\ adapters' = CloseAdapter(adapters, tasks[t].closing)
    /\ PutRest(t, pool)
    /\ UNCHANGED <<shutdown, now, calls>>
    /\ LockFrame

\* the close of the replaced handle returns, put stores and leaves the lock
LPutCloseOld(t) ==
    /\ tasks[t].pc = "put_close_old"
    /\ adapters' = CloseAdapter(adapters, tasks[t].closing)
    /\ pool' = Store(pool, PutEntry(tasks[t].sid, tasks[t].h))
    /\ LDone(t, Ev("put", tasks[t].sid, tasks[t].h, tasks[t].to_remove, 0, 0))
    /\ UNCHANGED <<shutdown, now, calls>>
    /\ LockFrame

\* put after shutdown: the close of the given handle returns
LPutCloseGiven(t) ==
    /\ tasks[t].pc = "put_close_given"
    /\ adapters' = CloseAdapter(adapters, tasks[t].closing)
    /\ LDone(t, Ev("put", tasks[t].sid, tasks[t].h, <<>>, 0, 0))
    /\ UNCHANGED <<pool, shutdown, now, calls>>
    /\ LockFrame

\* cleanup_idle enters the lock: the first pass
LSweep(t) ==
    /\ Acquires(t, "cleanup_idle")
    /\ IF ToRemove(pool, tasks[t].now) = <<>>
       THEN LDone(t, Ev("cleanup_idle", 0, 0, <<>>, 0, 0))
       ELSE LMove(t, [tasks[t] EXCEPT !.pc = "sweep_pop",
                                     !.to_remove = ToRemove(pool, tasks[t].now)])
    /\ UNCHANGED <<pool, shutdown, now, adapters, calls>>
    /\ LockFrame

\* second pass: pop the next id and call _close_adapter
LSweepPop(t) ==
    /\ tasks[t].pc = "sweep_pop"
    /\ LET sid == tasks[t].to_remove[tasks[t].i + 1]
       IN  /\ pool' = Pop(pool, sid)
           /\ LMove(t, [tasks[t] EXCEPT !.pc = "sweep_close", !.i = @ + 1,
                                       !.closing = AdapterOf(pool, sid)])
    /\ UNCHANGED <<shutdown, now, adapters, calls>>
    /\ LockFrame

\* the close returns: next id, or leave the lock and return to_remove
LSweepClose(t) ==
    /\ tasks[t].pc = "sweep_close"
    /\ adapters' = CloseAdapter(adapters, tasks[t].closing)
    /\ IF tasks[t].i = Len(tasks[t].to_remove)
       THEN LDone(t, Ev("cleanup_idle", 0, 0, tasks[t].to_remove, 0, 0))
       ELSE LMove(t, [tasks[t] EXCEPT !.pc = "sweep_pop"])
    /\ UNCHANGED <<pool, shutdown, now, calls>>
    /\ LockFrame

\* shutdown enters the lock: collect the adapters, clear, leave the lock
LShutdown(t) ==
    /\ Acquires(t, "shutdown")
    /\ pool' = <<>>
    /\ IF pool = <<>>
       THEN LDone(t, Ev("shutdown", 0, 0, <<>>, 0, 0))
       ELSE LMove(t, [tasks[t] EXCEPT !.pc = "shut_close", !.to_remove = AllAdapters(pool)])
    /\ UNCHANGED <<shutdown, now, adapters, calls>>
    /\ LockFrame

\* shutdown closes the next collected adapter, outside the lock
LShutClose(t) ==
    /\ tasks[t].pc = "shut_close"
    /\ adapters' = CloseAdapter(adapters, tasks[t].to_remove[tasks[t].i + 1])
    /\ IF tasks[t].i + 1 = Len(tasks[t].to_remove)
       THEN LDone(t, Ev("shutdown", 0, 0, <<>>, 0, 0))
       ELSE LMove(t, [tasks[t] EXCEPT !.i = @ + 1])
    /\ UNCHANGED <<pool, shutdown, now, calls>>
    /\ LockFrame

\* the task of a pool call is cancelled where it is suspended; a close in
\* progress has or has not taken effect.  The event's ret is 1 when the
\* task was inside the lock
LCancel(t) ==
    /\ tasks[t].pc \notin {"idle", "evict_lock", "abandoned"}
    /\ SetTask(t, Cancelled(tasks[t]))
    /\ last' = Ev("cancelled", tasks[t].sid, tasks[t].h, <<>>,
                   IF tasks[t].pc \in HeldPcs THEN 1 ELSE 0, 0)
    /\ \/ adapters' = adapters
       \/ /\ tasks[t].pc \in ClosingPcs \ {"shut_close"}
          /\ adapters' = CloseAdapter(adapters, tasks[t].closing)
    /\ UNCHANGED <<pool, shutdown, now, calls>>
    /\ LockFrame

\* the steps of task t that the event loop takes once they are possible
LStep(t) ==
    \/ LGet(t) \/ LRelease(t) \/ LRemove(t) \/ LRemoveClose(t)
    \/ LPut(t) \/ LPutCloseLru(t) \/ LPutCloseOld(t) \/ LPutCloseGiven(t)
    \/ LSweep(t) \/ LSweepPop(t) \/ LSweepClose(t)
    \/ LShutdown(t) \/ LShutClose(t)

LockNext ==
    \/ \E t \in Tasks, op \in {"get", "release", "remove"}, sid \in Ids : LCall(t, op, sid)
    \/ \E t \in Tasks, sid \in Ids : LCallPut(t, sid)
    \/ \E t \in Tasks : LCallSweep(t)
    \/ \E t \in Tasks : LCallShutdown(t)
    \/ \E t \in Tasks : LGet(t)
    \/ \E t \in Tasks : LRelease(t)
    \/ \E t \in Tasks : LRemove(t)
    \/ \E t \in Tasks : LRemoveClose(t)
    \/ \E t \in Tasks : LPut(t)
    \/ \E t \in Tasks : LPutCloseLru(t)
    \/ \E t \in Tasks : LPutCloseOld(t)
    \/ \E t \in Tasks : LPutCloseGiven(t)
    \/ \E t \in Tasks : LSweep(t)
    \/ \E t \in Tasks : LSweepPop(t)
    \/ \E t \in Tasks : LSweepClose(t)
    \/ \E t \in Tasks : LShutdown(t)
    \/ \E t \in Tasks : LShutClose(t)
    \/ \E t \in Tasks : LCancel(t)
    \/ Tick

\* a pool of capacity one after put(1, h) and release(1): one idle entry
LockInit ==
    /\ pool = <<PoolEntry(1, 1, 0)>>
    /\ max_size = 1
    /\ shutdown = FALSE
    /\ now = 0
    /\ adapters = <<NewAdapter>>
    /\ records = [s \in Ids |-> NoRec]
    /\ nextId = 1
    /\ tasks = [t \in Tasks |-> IdleTask]
    /\ calls = 0
    /\ last = NoEv
    /\ env = Concurrent

LockSpec == LockInit /\ [][LockNext]_vars

\* the event loop runs every task that can go on, and cleanup() returns
LockFair == \A t \in Tasks : WF_vars(LStep(t))

LockLive == LockSpec /\ LockFair

\* =====================================================================
\* Properties
\* =====================================================================
EntryOf(p, sid) == p[Idx(p, sid)]

\* the handles of sandbox sid that the pool or a call in flight holds
HandlesOf(sid) ==
    ({AdapterOf(pool, sid)} \cup {tasks[t].h : t \in {t \in Tasks : tasks[t].sid = sid}}) \ {0}

\* those whose container was started and is still open
LiveHandles(sid) == {h \in HandlesOf(sid) : is_started(adapters, h)}

\* task t is in ensure_sandbox_running, missed the pool and has constructed
\* an adapter of its own
StartedOwn(t) == tasks[t].op = "ensure" /\ tasks[t].pc \in {"put", "running"}

\* C1: concurrent ensure_sandbox_running calls for one user that miss the
\* pool never both start a container: no two calls in flight for the same
\* sandbox id have each constructed an adapter.
C1_SingleStart ==
    \A t1, t2 \in Tasks :
        (t1 # t2 /\ StartedOwn(t1) /\ StartedOwn(t2)) => tasks[t1].sid # tasks[t2].sid

\* C2: in every reachable state every sandbox id has at most one handle
\* that has been started and not yet closed.
C2_OneLiveHandle == \A sid \in Ids : Cardinality(LiveHandles(sid)) <= 1

\* C3: when ensure_sandbox_running returns a handle, the pool has not
\* closed that handle and the pool maps the sandbox id to it.
C3_ReturnsUsable ==
    last.ev = "ensure_ret" =>
        /\ adapters[last.h].closes = 0
        /\ AdapterOf(pool, last.sid) = last.h

\* C4: a step of the idle sweep or of put's LRU eviction leaves every entry
\* whose active_count is positive in the pool, with its handle not closed
\* (put replacing the entry of its own id is not an eviction).
C4_NeverEvictInUse ==
    [][\A i \in 1..Len(pool) :
          (/\ pool[i].active_count > 0
           /\ \/ last'.ev = "cleanup_idle"
              \/ last'.ev = "put" /\ last'.sid # pool[i].sid)
          => /\ pool[i].sid \in PoolIds(pool')
             /\ AdapterOf(pool', pool[i].sid) = pool[i].adapter
             /\ adapters'[pool[i].adapter] = adapters[pool[i].adapter]]_vars

\* C4 witness: a sweep has evicted an entry and left one that is as old but
\* in use.
C4_Witness ==
    /\ last.ev = "cleanup_idle"
    /\ last.evicted # <<>>
    /\ \E i \in 1..Len(pool) :
          pool[i].active_count > 0 /\ (now - pool[i].last_used) > IdleTimeout

\* C5: active_count is never negative; release of an absent id changes
\* nothing; release of a present id takes one off active_count, stopping at
\* zero, and neither closes a handle nor changes which ids are pooled.
C5_ReleaseFloor ==
    [][/\ \A i \in 1..Len(pool') : pool'[i].active_count >= 0
       /\ last'.ev = "release" =>
            /\ adapters' = adapters
            /\ PoolIds(pool') = PoolIds(pool)
            /\ Len(pool') = Len(pool)
            /\ last'.sid \notin PoolIds(pool) => pool' = pool
            /\ \A i \in 1..Len(pool) :
                  /\ pool'[i].sid = pool[i].sid
                  /\ pool'[i].adapter = pool[i].adapter
                  /\ pool[i].sid # last'.sid => pool'[i] = pool[i]
                  /\ pool[i].sid = last'.sid =>
                        pool'[i].active_count =
                            IF pool[i].active_count = 0 THEN 0 ELSE pool[i].active_count - 1]_vars

\* C5 witness: release has run on an entry whose active_count was already 0.
C5_Witness ==
    /\ last.ev = "release"
    /\ last.old = 0
    /\ last.sid \in PoolIds(pool)
    /\ EntryOf(pool, last.sid).active_count = 0

ZeroRef(p) == {i \in 1..Len(p) : p[i].active_count = 0}

\* C6: put of a new id into a pool that holds exactly max_size entries, one
\* of them unreferenced, evicts exactly one entry: an unreferenced one whose
\* last_used is the smallest among the unreferenced; its handle is closed
\* and the pool does not exceed max_size afterwards.
C6_LruEviction ==
    [][(/\ last'.ev = "put"
        /\ ~shutdown
        /\ last'.sid \notin PoolIds(pool)
        /\ Len(pool) = max_size
        /\ ZeroRef(pool) # {})
       => /\ Cardinality(PoolIds(pool) \ PoolIds(pool')) = 1
          /\ \A i \in 1..Len(pool) :
                pool[i].sid \notin PoolIds(pool') =>
                    /\ pool[i].active_count = 0
                    /\ \A j \in ZeroRef(pool) : pool[i].last_used <= pool[j].last_used
                    /\ adapters'[pool[i].adapter].closes = adapters[pool[i].adapter].closes + 1
          /\ AdapterOf(pool', last'.sid) = last'.h
          /\ Len(pool') <= max_size]_vars

\* C6 witness: put has evicted from a full pool of two in which a second,
\* more recently used unreferenced entry stays.
C6_Witness ==
    /\ last.ev = "put"
    /\ last.evicted # <<>>
    /\ max_size = 2
    /\ last.old = max_size
    /\ Len(pool) = max_size
    /\ \E i \in ZeroRef(pool) : pool[i].last_used > 0

AllInUse(p) == \A i \in 1..Len(p) : p[i].active_count > 0

\* C7 as stated: put into a pool at or above max_size whose entries are all
\* in use evicts nothing, stores the handle and leaves the pool larger than
\* max_size.
C7_SoftCapacityAlwaysGrows ==
    [][(/\ last'.ev = "put"
        /\ ~shutdown
        /\ Len(pool) >= max_size
        /\ AllInUse(pool))
       => /\ PoolIds(pool) \subseteq PoolIds(pool')
          /\ AdapterOf(pool', last'.sid) = last'.h
          /\ Len(pool') > max_size]_vars

\* C7 amended: such a put evicts nothing and stores the handle; for an id
\* that was not pooled the pool grows by one and exceeds max_size, for an id
\* that was pooled the old handle is closed and the size stays the same.
C7_SoftCapacity ==
    [][(/\ last'.ev = "put"
        /\ ~shutdown
        /\ Len(pool) >= max_size
        /\ AllInUse(pool))
       => /\ PoolIds(pool) \subseteq PoolIds(pool')
          /\ \A i \in 1..Len(pool) :
                pool[i].sid # last'.sid =>
                    /\ pool[i] \in Range(pool')
                    /\ adapters'[pool[i].adapter] = adapters[pool[i].adapter]
          /\ AdapterOf(pool', last'.sid) = last'.h
          /\ EntryOf(pool', last'.sid).active_count = 1
          /\ IF last'.sid \in PoolIds(pool)
             THEN /\ Len(pool') = Len(pool)
                  /\ adapters'[AdapterOf(pool, last'.sid)].closes
                        = adapters[AdapterOf(pool, last'.sid)].closes + 1
             ELSE /\ Len(pool') = Len(pool) + 1
                  /\ Len(pool') > max_size]_vars

\* C7 witness: put has stored a new id in a full pool whose entries were all
\* in use, and the pool is now larger than max_size.
C7_Witness ==
    /\ last.ev = "put"
    /\ last.evicted = <<>>
    /\ last.old >= max_size
    /\ Len(pool) = last.old + 1
    /\ Len(pool) > max_size
    /\ AdapterOf(pool, last.sid) = last.h

LegalTransitions ==
    {<<"pending", "creating">>, <<"creating", "running">>, <<"creating", "failed">>,
     <<"running", "stopped">>, <<"stopped", "creating">>}
    \cup {<<st, "terminating">> : st \in Statuses \ {"terminating"}}

\* C8: every change of a record's status is pending->creating,
\* creating->running, creating->failed, running->stopped, stopped->creating
\* or a change to terminating.
C8_LegalTransitions ==
    [][\A sid \in Ids :
          (/\ records[sid] # NoRec
           /\ records'[sid] # NoRec
           /\ records'[sid].status # records[sid].status)
          => <<records[sid].status, records'[sid].status>> \in LegalTransitions]_vars

\* C9: when ensure_sandbox_running returns after its put evicted the entry
\* of another sandbox for capacity, the record of the evicted sandbox has
\* status stopped.
C9_LruEvictionStopsRecord ==
    last.ev = "ensure_ret" =>
        \A sid \in Range(last.evicted) \ {last.sid} :
            records[sid] # NoRec => records[sid].status = "stopped"

C11_StaleHandleReplaced ==
    [][\A t \in Tasks :
          /\ tasks[t].pc = "remove" =>
                /\ tasks[t].h # 0
                /\ ~is_started(adapters, tasks[t].h)
                /\ tasks'[t].pc = "remove" \/ tasks'[t].pc = "creating"
                /\ tasks'[t].pc = "creating" =>
                      /\ tasks[t].sid \notin PoolIds(pool')
                      /\ adapters'[tasks[t].h].closes = adapters[tasks[t].h].closes + 1
                      /\ tasks'[t].stale = tasks[t].h
          /\ (tasks[t].stale # 0 /\ tasks'[t].stale # 0) =>
                Len(adapters') =
                    Len(adapters) + (IF tasks[t].pc = "creating" /\ tasks'[t].pc = "put" THEN 1 ELSE 0)
          /\ (tasks[t].stale # 0 /\ last'.ev = "ensure_ret") =>
                /\ last'.old = tasks[t].stale
                /\ adapters'[last'.old].closes = 1
                /\ last'.h # last'.old
                /\ last'.h = Len(adapters')
                /\ adapters'[last'.h].closes = 0
                /\ AdapterOf(pool', last'.sid) = last'.h
          /\ (tasks[t].stale # 0 /\ last'.ev = "ensure_raise") =>
                /\ tasks[t].pc = "failed"
                /\ tasks[t].e \in Exceptions]_vars

\* C11 witness: ensure_sandbox_running has returned a new handle after it
\* found the pooled one dead; the dead one is closed and the new one pooled.
C11_Witness ==
    /\ last.ev = "ensure_ret"
    /\ last.old # 0
    /\ adapters[last.old].died
    /\ adapters[last.old].closes = 1
    /\ AdapterOf(pool, last.sid) = last.h
    /\ is_started(adapters, last.h)

\* the record of sid is absent or already stopped
StoppedOrAbsent(sid) == records[sid] = NoRec \/ records[sid].status = "stopped"

\* C12: stop_sandbox for an id whose record is already stopped, or that has
\* no record, closes no adapter and returns false.
C12_StopAgainReturnsFalse ==
    [][\A t \in Tasks :
          /\ (tasks'[t].op = "stop" /\ tasks[t].pc = "idle" /\ tasks'[t].pc = "stop_write"
                 /\ StoppedOrAbsent(tasks'[t].sid))
                => adapters' = adapters
          /\ (tasks[t].op = "stop" /\ tasks[t].pc = "stop_write" /\ tasks'[t].pc = "idle"
                 /\ StoppedOrAbsent(tasks[t].sid))
                => last'.ret = FALSE]_vars

\* C13: when stop_sandbox returns true, the pool holds no entry for the id
\* and the record of the id has status stopped; it returns true exactly when
\* its update found a record.
C13_StopLeavesNoEntry ==
    last.ev = "stop_ret" =>
        /\ last.ret = (records[last.sid] # NoRec)
        /\ last.ret => /\ last.sid \notin PoolIds(pool)
                       /\ records[last.sid].status = "stopped"

\* C14: every id that has an entry in the pool has a record.
C14_PooledHasRecord == \A sid \in PoolIds(pool) : records[sid] # NoRec

\* C16: a record that is removed had status terminating just before, and a
\* step that sets a record's status to terminating belongs to a
\* delete_sandbox call.
C16_TerminatingBeforeDelete ==
    [][\A sid \in Ids :
          /\ (records[sid] # NoRec /\ records'[sid] = NoRec)
                => records[sid].status = "terminating"
          /\ (records'[sid].status = "terminating" /\ records[sid].status # "terminating")
                => \E t \in Tasks : tasks[t].op = "delete" /\ tasks[t].sid = sid]_vars

\* C15: in a serial run, delete_sandbox first removes the pool entry of the
\* id and closes its handle while the record is still there, then writes
\* stopped to the record, then removes the record; it returns true exactly
\* when the id had a record, and when it returns the id has neither a record
\* nor a pool entry.
C15_DeleteRemovesBoth ==
    [][\A t \in Tasks :
          /\ (tasks'[t].op = "delete" /\ tasks[t].pc = "idle" /\ tasks'[t].pc = "stop_write") =>
                /\ tasks'[t].sid \notin PoolIds(pool')
                /\ tasks'[t].sid \in PoolIds(pool) =>
                      adapters'[AdapterOf(pool, tasks'[t].sid)].closes
                          = adapters[AdapterOf(pool, tasks'[t].sid)].closes + 1
                /\ records' = records
          /\ (tasks[t].op = "delete" /\ tasks[t].pc = "stop_write") =>
                /\ tasks'[t].pc = "stop_write" \/ tasks'[t].pc = "delete_row"
                /\ tasks'[t].pc = "delete_row" =>
                      /\ (records'[tasks[t].sid] = NoRec) = (records[tasks[t].sid] = NoRec)
                      /\ records[tasks[t].sid] # NoRec => records'[tasks[t].sid].status = "stopped"
                      /\ tasks[t].sid \notin PoolIds(pool')
          /\ (tasks[t].pc = "delete_row" /\ tasks'[t].pc = "idle") =>
                /\ last'.ev = "delete_ret"
                /\ last'.ret = (records[tasks[t].sid] # NoRec)
                /\ records'[tasks[t].sid] = NoRec
                /\ tasks[t].sid \notin PoolIds(pool')]_vars

\* C15 witness: delete_sandbox has returned true for a sandbox that was
\* running: its record and pool entry are gone and its handle is closed.
C15_Witness ==
    /\ last.ev = "delete_ret"
    /\ last.ret = TRUE
    /\ records[last.sid] = NoRec
    /\ last.sid \notin PoolIds(pool)
    /\ \E h \in 1..Len(adapters) : adapters[h].closes = 1 /\ ~adapters[h].died

C18_RetryAfterFailure ==
    [][/\ \A sid \in Ids : records'[sid].status = "running" => records'[sid].error_message = None
       /\ \A t \in Tasks :
             /\ (/\ tasks[t].pc = "get"
                 /\ tasks'[t].pc # "get"
                 /\ records[tasks[t].sid].status \in {"failed", "stopped"})
                => tasks'[t].pc \in {"creating", "remove"}
             /\ (tasks[t].pc = "running" /\ last'.ev = "ensure_ret")
                => /\ records'[last'.sid].status = "running"
                   /\ records'[last'.sid].error_message = None
                   /\ ~shutdown => AdapterOf(pool', last'.sid) = last'.h]_vars

\* C19: once shutdown has run the pool is empty and stays empty, and every
\* handle ever given to the pool has been closed exactly once; a put after
\* shutdown closes the handle it is given and stores nothing; a get after
\* shutdown returns nothing and changes nothing; shutdown is never undone.
C19_ShutdownFinal ==
    [][/\ shutdown => shutdown'
       /\ shutdown' =>
             /\ pool' = <<>>
             /\ \A h \in 1..Len(adapters') : adapters'[h].closes = 1
       /\ (shutdown /\ last'.ev = "put") =>
             /\ Len(adapters') = Len(adapters) + 1
             /\ last'.h = Len(adapters')
             /\ adapters'[last'.h].closes = 1
             /\ \A h \in 1..Len(adapters) : adapters'[h] = adapters[h]
       /\ (shutdown /\ last'.ev = "get") =>
             /\ last'.h = 0
             /\ adapters' = adapters]_vars

\* C19 witness: a put has run after shutdown: the pool is empty, the handle
\* it was given is closed, and so is a handle that was stored before.
C19_Witness ==
    /\ shutdown
    /\ last.ev = "put"
    /\ pool = <<>>
    /\ Len(adapters) >= 2
    /\ last.h = Len(adapters)
    /\ \A h \in 1..Len(adapters) : adapters[h].closes = 1

RecordsOf(recs, u) == {s \in Ids : recs[s].user = u}

\* C20: no user ever has more than one record; the check of
\* create_sandbox_record that finds a record for the user returns that
\* record and inserts nothing; a record that appears has status pending.
C20_OneRecordPerUser ==
    [][/\ \A u \in Users : Cardinality(RecordsOf(records', u)) <= 1
       /\ \A t \in Tasks :
             (/\ tasks[t].pc = "create_check"
              /\ tasks'[t].pc # "create_check"
              /\ RecordsOf(records, tasks[t].user) # {})
             => /\ records' = records
                /\ nextId' = nextId
                /\ tasks'[t].pc = "get"
                /\ tasks'[t].sid \in RecordsOf(records, tasks[t].user)
       /\ \A s \in Ids :
             (records[s] = NoRec /\ records'[s] # NoRec)
             => /\ records'[s].status = "pending"
                /\ records'[s].user \in Users]_vars

\* C20 witness: of two first-time ensure_sandbox_running calls for one user
\* that both found no record, one inserted and the insert of the other was
\* rejected; the user has one record.
C20_Witness ==
    /\ last.ev = "ensure_error"
    /\ \E u \in Users : Cardinality(RecordsOf(records, u)) = 1
    /\ \E t \in Tasks : tasks[t].op = "ensure" /\ tasks[t].sid # 0

\* C21: remove of a pooled id takes the entry out of the pool and closes its
\* handle once, whatever its active_count, and touches no other entry or
\* handle; remove of an absent id changes nothing and closes nothing; after
\* remove the pool has no entry for the id.
C21_RemoveUnconditional ==
    [][last'.ev = "remove" =>
          /\ last'.sid \notin PoolIds(pool')
          /\ pool' = Pop(pool, last'.sid)
          /\ IF last'.sid \in PoolIds(pool)
             THEN /\ last'.h = AdapterOf(pool, last'.sid)
                  /\ adapters' = [adapters EXCEPT ![last'.h].closes = @ + 1]
             ELSE /\ pool' = pool
                  /\ adapters' = adapters]_vars

\* C21 witness: remove has taken out an entry that was in use and closed its
\* handle.
C21_Witness ==
    /\ last.ev = "remove"
    /\ last.old > 0
    /\ last.sid \notin PoolIds(pool)
    /\ adapters[last.h].closes = 1

\* the handles the pool map holds
Pooled == Range(AllAdapters(pool))

\* C22: a handle leaves the pool map only together with one close: every
\* handle given to the pool that is not in the map has been closed by the
\* pool exactly once, no handle in the map has been closed by the pool, and
\* no handle is in the map twice, whatever sequence of put (eviction and
\* replacement included), remove, cleanup_idle and shutdown has run.
C22_DetachedIffClosed ==
    /\ \A h \in 1..Len(adapters) :
           adapters[h].closes = (IF h \in Pooled THEN 0 ELSE 1)
    /\ \A i, j \in 1..Len(pool) : pool[i].adapter = pool[j].adapter => i = j

\* C22 witness: one put has evicted an idle entry and closed its handle while
\* an earlier handle is still pooled and open.
C22_Witness ==
    /\ last.ev = "put"
    /\ Len(last.evicted) = 1
    /\ last.h \in Pooled
    /\ \E h \in 1..Len(adapters) : h \notin Pooled /\ adapters[h].closes = 1
    /\ \E h \in Pooled : h # last.h /\ adapters[h].closes = 0

\* the positions cleanup_idle's scan selects at time t
IdleAt(p, t) ==
    {i \in 1..Len(p) : p[i].active_count = 0 /\ t - p[i].last_used > IdleTimeout}

\* C27: cleanup_idle takes out exactly the entries that have active_count 0
\* and an age strictly above the idle timeout when it scans: it returns
\* their ids and no others, closes their handles once and no other handle,
\* and leaves every other entry as it was, in place.
C27_CleanupExact ==
    [][last'.ev = "cleanup_idle" =>
          LET gone == IdleAt(pool, now)
          IN  /\ Len(last'.evicted) = Cardinality(gone)
              /\ Range(last'.evicted) = {pool[i].sid : i \in gone}
              /\ pool' = SelectSeq(pool, LAMBDA e : e.sid \notin Range(last'.evicted))
              /\ \A i \in 1..Len(pool) : i \notin gone => pool[i] \in Range(pool')
              /\ adapters' = [h \in 1..Len(adapters) |->
                                IF h \in {pool[i].adapter : i \in gone}
                                THEN [adapters[h] EXCEPT !.closes = @ + 1]
                                ELSE adapters[h]]]_vars

\* C27 witness: a sweep has removed an expired entry and kept an unreferenced
\* entry whose age equals the timeout.
C27_Witness ==
    /\ last.ev = "cleanup_idle"
    /\ Len(last.evicted) >= 1
    /\ \E i \in 1..Len(pool) :
           pool[i].active_count = 0 /\ now - pool[i].last_used = IdleTimeout

\* C28: get of a pooled id returns the stored handle, adds exactly one to
\* the entry's active_count, sets its last_used to the current time and
\* changes nothing else: the same ids stay pooled in the same order, the
\* other entries and every handle are untouched; get of an id that is not
\* pooled returns None and changes nothing.
C28_GetCounts ==
    [][last'.ev = "get" =>
          /\ adapters' = adapters
          /\ shutdown' = shutdown
          /\ IF last'.sid \in PoolIds(pool)
             THEN LET i == Idx(pool, last'.sid)
                  IN  /\ last'.h = pool[i].adapter
                      /\ last'.h # 0
                      /\ pool' = [pool EXCEPT ![i] =
                                     [sid |-> pool[i].sid, adapter |-> pool[i].adapter,
                                      last_used |-> now,
                                      active_count |-> pool[i].active_count + 1]]
             ELSE /\ last'.h = 0
                  /\ pool' = pool]_vars

\* C28 witness: a get has returned a pooled handle a second time, at a later
\* time than the entry was stored.
C28_Witness ==
    /\ last.ev = "get"
    /\ last.h # 0
    /\ now > 0
    /\ \E i \in 1..Len(pool) :
           /\ pool[i].sid = last.sid
           /\ pool[i].adapter = last.h
           /\ pool[i].active_count = 2
           /\ pool[i].last_used = now

\* C29: after put(id, h) on a pool that is not shut down the pool maps id
\* to h with active_count 1 and last_used the current time, and h is open;
\* if id was pooled before, the handle it had has been closed once by this
\* put and the new count is 1 whatever the old count was.
C29_PutStoresFresh ==
    [][(last'.ev = "put" /\ ~shutdown) =>
          /\ last'.sid \in PoolIds(pool')
          /\ pool'[Idx(pool', last'.sid)] =
                 [sid |-> last'.sid, adapter |-> last'.h, last_used |-> now, active_count |-> 1]
          /\ adapters'[last'.h].closes = 0
          /\ last'.sid \in PoolIds(pool) =>
                 /\ AdapterOf(pool, last'.sid) # last'.h
                 /\ adapters'[AdapterOf(pool, last'.sid)].closes
                        = adapters[AdapterOf(pool, last'.sid)].closes + 1]_vars

\* C29 witness: a put on a full pool whose entries were all in use has
\* replaced the entry of its id: nothing was evicted, the pool did not grow,
\* and the new entry counts one reference.
C29_Witness ==
    /\ last.ev = "put"
    /\ ~shutdown
    /\ Len(last.evicted) = 0
    /\ last.old >= max_size
    /\ Len(pool) = last.old
    /\ AdapterOf(pool, last.sid) = last.h
    /\ pool[Idx(pool, last.sid)].active_count = 1
    /\ \E h \in 1..Len(adapters) : h # last.h /\ adapters[h].closes = 1

\* C24: when restart_sandbox(id) returns True the record of id is stopped
\* and the pool has no entry for id; it returns False exactly when no
\* record has that id; and no step taken while a restart is in progress
\* constructs an adapter.
C24_RestartOnlyStops ==
    [][/\ last'.ev = "restart_ret" =>
             /\ last'.ret = (records'[last'.sid] # NoRec)
             /\ last'.ret = TRUE =>
                    /\ records'[last'.sid].status = "stopped"
                    /\ last'.sid \notin PoolIds(pool')
       /\ (\E t \in Tasks : tasks[t].op = "restart" \/ tasks'[t].op = "restart") =>
             Len(adapters') = Len(adapters)]_vars

\* C24 witness: restart_sandbox has returned True for a sandbox that was
\* running: its handle was closed, its record is stopped, no handle is open.
C24_Witness ==
    /\ last.ev = "restart_ret"
    /\ last.ret = TRUE
    /\ records[last.sid].status = "stopped"
    /\ Len(adapters) = 1
    /\ adapters[1].closes = 1
    /\ ~adapters[1].died

\* C25: every write that changes the status of a record also sets its
\* last_active_at, to the time the writing call read for that statement.
C25_StatusWriteStamps ==
    [][\A s \in Ids :
          (/\ records[s] # NoRec
           /\ records'[s] # NoRec
           /\ records'[s].status # records[s].status) =>
             \E t \in Tasks :
                 /\ tasks'[t] # tasks[t]
                 /\ tasks[t].stamp # NoStamp
                 /\ records'[s].last_active_at = tasks[t].stamp]_vars

\* the handle pooled for sid is live
LiveEntry(p, ad, sid) == sid \in PoolIds(p) /\ is_started(ad, AdapterOf(p, sid))

\* C26: while a sandbox keeps a live pool entry the last_active_at of its
\* record never decreases, whatever the interleaving of concurrent calls.
C26_LastActiveMonotonic ==
    [][\A s \in Ids :
          (/\ LiveEntry(pool, adapters, s)
           /\ LiveEntry(pool', adapters', s)
           /\ records[s] # NoRec
           /\ records'[s] # NoRec) =>
             records'[s].last_active_at >= records[s].last_active_at]_vars

\* C30: an ensure_sandbox_running call that finds a live handle in the pool
\* reads the clock and goes on to return that handle; its remaining step
\* returns the same handle, constructs and closes no adapter, leaves the
\* pool alone, and writes only last_active_at, the time it read, into the
\* record of its sandbox: status, error_message and every other record stay
\* as they were.
C30_TouchOnly ==
    [][\A t \in Tasks :
          /\ (tasks[t].pc = "get" /\ tasks'[t].pc = "touch") =>
                /\ tasks'[t].h = AdapterOf(pool, tasks[t].sid)
                /\ is_started(adapters, tasks'[t].h)
                /\ tasks'[t].stamp = now
                /\ adapters' = adapters
                /\ records' = records
                /\ PoolIds(pool') = PoolIds(pool)
          /\ (tasks[t].pc = "touch" /\ tasks'[t] # tasks[t]) =>
                /\ tasks'[t].pc = "idle"
                /\ last'.ev = "ensure_ret"
                /\ last'.h = tasks[t].h
                /\ adapters' = adapters
                /\ pool' = pool
                /\ \A s \in Ids :
                      records'[s] =
                         IF s = tasks[t].sid /\ records[s] # NoRec
                         THEN [user |-> records[s].user, status |-> records[s].status,
                               error_message |-> records[s].error_message,
                               last_active_at |-> tasks[t].stamp]
                         ELSE records[s]]_vars

\* C30 witness: a call has returned the pooled handle of a sandbox whose
\* record is failed with an error message, and has moved its last_active_at
\* to the later time it read.
C30_Witness ==
    /\ last.ev = "ensure_ret"
    /\ Len(adapters) = 1
    /\ last.h = 1
    /\ AdapterOf(pool, last.sid) = 1
    /\ records[last.sid].status = "failed"
    /\ records[last.sid].error_message # None
    /\ records[last.sid].last_active_at = 1

\* C23: when cleanup() raises inside a close, the step goes through as if it
\* had not: every handle that leaves the pool map in the step, the ones
\* after the raising one included, has had its close call; remove leaves
\* no entry for the id and its caller goes on (stop_sandbox to its update,
\* ensure_sandbox_running to the creation); cleanup_idle takes out every
\* idle entry and reports all of them; put stores the new handle; shutdown
\* empties the pool.  The update of stop_sandbox then sets an existing
\* record to stopped.
C23_CloseErrorsAbsorbed ==
    [][/\ last'.raised # {} =>
             /\ \A h \in last'.raised : adapters'[h].closes = adapters[h].closes + 1
             /\ \A h \in Range(AllAdapters(pool)) \ Range(AllAdapters(pool')) :
                    adapters'[h].closes = adapters[h].closes + 1
             /\ last'.ev \in {"remove", "cleanup_idle", "put", "shutdown"}
             /\ last'.ev = "remove" =>
                    /\ pool' = Pop(pool, last'.sid)
                    /\ \A t \in Tasks : tasks'[t] # tasks[t] =>
                           /\ tasks'[t].sid = last'.sid
                           /\ tasks'[t].pc = (IF tasks'[t].op = "ensure" THEN "creating"
                                              ELSE "stop_write")
             /\ last'.ev = "cleanup_idle" =>
                    /\ last'.evicted = ToRemove(pool, now)
                    /\ PoolIds(pool') = PoolIds(pool) \ Range(last'.evicted)
                    /\ \A t \in Tasks : tasks'[t] # tasks[t] =>
                           tasks'[t].pc = "sync" /\ tasks'[t].evicted = last'.evicted
             /\ (last'.ev = "put" /\ ~shutdown) =>
                    /\ AdapterOf(pool', last'.sid) = last'.h
                    /\ Range(last'.evicted) \cap PoolIds(pool') \subseteq {last'.sid}
                    /\ \A t \in Tasks : tasks'[t] # tasks[t] => tasks'[t].pc = "running"
             /\ last'.ev = "shutdown" => pool' = <<>> /\ shutdown'
       /\ \A t \in Tasks :
             (tasks[t].pc = "stop_write" /\ tasks'[t] # tasks[t] /\ records[tasks[t].sid] # NoRec) =>
                 /\ records'[tasks[t].sid].status = "stopped"
                 /\ last'.ev = "stop_ret"
                 /\ last'.ret = TRUE]_vars

\* C23 witness: a sweep over two idle entries in which cleanup() of the
\* first handle raised has emptied the pool and closed both handles.
C23_Witness ==
    /\ last.ev = "cleanup_idle"
    /\ Len(last.evicted) = 2
    /\ last.raised = {1}
    /\ Len(adapters) = 2
    /\ pool = <<>>
    /\ \A h \in 1..2 : adapters[h].closes = 1

\* C37: a put for an id that is already pooled evicts no entry of another
\* id and leaves the number of entries as it was.
C37_ReplaceEvictsNothing ==
    [][(last'.ev = "put" /\ ~shutdown /\ last'.sid \in PoolIds(pool)) =>
          /\ Range(last'.evicted) \subseteq {last'.sid}
          /\ Len(pool') = Len(pool)]_vars

\* C38: when ensure_sandbox_running ends by raising, having written failed,
\* the pool has no entry for its sandbox and the handle the call started,
\* if it started one, is no longer open.
C38_FailureLeavesNothing ==
    [][\A t \in Tasks :
          (tasks[t].pc = "failed" /\ tasks'[t].pc = "idle") =>
             /\ tasks[t].sid \notin PoolIds(pool')
             /\ tasks[t].h # 0 => ~is_started(adapters', tasks[t].h)]_vars

\* C32: when a cleanup_idle_sandboxes call returns, every record that says
\* running has an entry in the pool; and an ensure_sandbox_running
\* that returns a handle for a record that was running without a live
\* handle returns a newly started one, registered in the pool.
C32_StaleRunningCorrected ==
    [][/\ (last'.ev = "cleanup_ret" /\ ~shutdown) =>
             \A s \in Ids :
                 (records'[s] # NoRec /\ records'[s].status = "running") =>
                     s \in PoolIds(pool')
       /\ \A t \in Tasks :
             (/\ tasks[t].pc = "running"
              /\ last'.ev = "ensure_ret"
              /\ tasks'[t].pc = "idle"
              /\ ~shutdown) =>
                 /\ AdapterOf(pool', tasks[t].sid) = last'.h
                 /\ adapters'[last'.h].closes = 0]_vars

\* C35: whenever no manager call is in flight, the pool has an entry for a
\* sandbox exactly when the record of the sandbox says running.
C35_QuiescentAgreement ==
    (Alone /\ ~shutdown) =>
        \A s \in Ids :
            (s \in PoolIds(pool)) = (records[s] # NoRec /\ records[s].status = "running")

C31_MutualExclusion ==
    [][/\ \A t \in Tasks : \A u \in Tasks \ {t} :
            tasks[t].pc \in HeldPcs /\ tasks'[u] # tasks[u] =>
                /\ pool' = pool
                /\ tasks[u].pc = "lock" => last'.ev = "cancelled"
       /\ \A t \in Tasks :
            tasks[t].pc = "sweep_pop" /\ tasks'[t].pc = "sweep_close" =>
                LET sid == tasks[t].to_remove[tasks[t].i + 1]
                IN  /\ sid \in PoolIds(pool)
                    /\ EntryOf(pool, sid).active_count = 0
                    /\ sid \notin PoolIds(pool')]_vars

\* a get for an id the sweep has selected waits at the lock while the
\* sweep is between its passes
C31_Witness ==
    \E t \in Tasks, u \in Tasks :
        /\ tasks[t].pc = "sweep_pop"
        /\ tasks[u].pc = "lock" /\ tasks[u].op = "get"
        /\ tasks[u].sid \in Range(tasks[t].to_remove)

\* C34: no method of the pool is inside _close_adapter while it holds the
\* lock.
C34_CloseOutsideLock ==
    \A t \in Tasks : tasks[t].pc \in ClosingPcs => tasks[t].pc \notin HeldPcs

\* C33: a call that is cancelled where it is suspended leaves no lock
\* held: the cancelled task is outside the lock in the next state, the lock
\* becomes free after every cancellation, and every call that waits for
\* the lock, a put for the same id included, gets it and ends.
C33_CancelReleases ==
    /\ [][\A t \in Tasks :
            last'.ev = "cancelled" /\ tasks'[t] # tasks[t] => tasks'[t].pc \notin HeldPcs]_vars
    /\ (last.ev = "cancelled") ~> ~Locked
    /\ \A t \in Tasks : (tasks[t].pc = "lock") ~> (tasks[t].pc = "idle")

\* a put is cancelled while it closes a handle inside the lock, and
\* another call for the same id waits for the lock
C33_Witness ==
    /\ last.ev = "cancelled" /\ last.ret = 1 /\ last.h # 0
    /\ \E u \in Tasks : tasks[u].pc = "lock" /\ tasks[u].op \in {"get", "put"}
                        /\ tasks[u].sid = last.sid

\* C39: every call of a pool method ends with the lock released, whatever
\* the other calls do, and no call asks for the lock while it holds it:
\* put runs _evict_lru and _close_adapter inside its own block.
C39_PoolCallsTerminate ==
    /\ [](\A t \in Tasks : tasks[t].pc # "evict_lock")
    /\ \A t \in Tasks : (tasks[t].pc # "idle") ~> (tasks[t].pc = "idle")
    /\ Locked ~> ~Locked

\* a put that evicted the least recently used entry has returned and the
\* lock is free
C39_Witness == last.ev = "put" /\ last.evicted # <<>> /\ ~Locked

====
